---- MODULE Spec2Model ----
(***************************************************************************)
(* Model of encode.py: solana_private_key_to_decimal_list and the          *)
(* module-level example that calls it and prints the result.               *)
(*                                                                         *)
(* Representation.  A Python str or bytes value is a sequence of naturals  *)
(* (code points, respectively byte values).  A Python int of unbounded     *)
(* size is its sequence of base-256 digits, least significant first, with  *)
(* no high zero digit (zero is the empty sequence).                        *)
(*                                                                         *)
(* base58.b58decode, which line 1 imports and line 12 calls, is the        *)
(* decoder of the base58 package as released since 1.0 (2.1.1 is current): *)
(*     v = v.rstrip(); v = scrub_input(v)      # str -> ASCII bytes        *)
(*     origlen = len(v); v = v.lstrip(b'1'); newlen = len(v)               *)
(*     acc = b58decode_int(v)                  # ValueError on a character *)
(*                                             # outside the alphabet      *)
(*     return acc.to_bytes(origlen - newlen + (acc.bit_length() + 7) // 8, *)
(*                         'big')                                          *)
(* The calls of one run are sequential: the module's own call at line 30,  *)
(* then, once the module has loaded, the calls of whoever imported it.     *)
(***************************************************************************)
EXTENDS Integers, Sequences, FiniteSets

(* ------------------------------ bounds -------------------------------- *)

\* Largest number of leading zero bytes put in front of a generated key.
MaxLeadingZeros == 2

\* Largest number of calls an importing caller makes after the module loaded.
MaxCalls == 2

(* ----------------------- strings, bytes, integers ---------------------- *)

\* A name that is not bound (a local before its assignment, a global before
\* line 30 ran).  No str or bytes value contains a negative element.
Unbound == <<-1>>

Repeat(x, n) == [i \in 1 .. n |-> x]

MaxOf(S) == CHOOSE m \in S : \A k \in S : k <= m

MinOf(S) == CHOOSE m \in S : \A k \in S : m <= k

\* The element of a one-element set.  Written The({F(x) : x \in {e}}) it is
\* F(e) with e computed once, before F.
The(S) == CHOOSE x \in S : TRUE

\* The characters str.rstrip() with no argument removes (str.isspace).
Whitespace ==
    {9, 10, 11, 12, 13, 28, 29, 30, 31, 32, 133, 160, 5760} \cup (8192 .. 8202)
        \cup {8232, 8233, 8239, 8287, 12288}

\* v.rstrip(): v up to its last character that is not whitespace
rstrip(v) ==
    LET kept == {i \in 1 .. Len(v) : v[i] \notin Whitespace}
    IN  IF kept = {} THEN <<>> ELSE SubSeq(v, 1, MaxOf(kept))

\* v.lstrip(c) for a single character c: v from its first character that is not c
lstrip(v, c) ==
    LET kept == {i \in 1 .. Len(v) : v[i] # c}
    IN  IF kept = {} THEN <<>> ELSE SubSeq(v, MinOf(kept), Len(v))

\* str.encode('ascii') succeeds exactly on code points below 128.
IsAscii(v) == \A i \in 1 .. Len(v) : v[i] < 128

\* "123456789ABCDEFGHJKLMNPQRSTUVWXYZabcdefghijkmnopqrstuvwxyz"
BITCOIN_ALPHABET ==
    <<49, 50, 51, 52, 53, 54, 55, 56, 57, 65, 66, 67, 68, 69, 70, 71, 72,
      74, 75, 76, 77, 78, 80, 81, 82, 83, 84, 85, 86, 87, 88, 89, 90, 97,
      98, 99, 100, 101, 102, 103, 104, 105, 106, 107, 109, 110, 111, 112,
      113, 114, 115, 116, 117, 118, 119, 120, 121, 122>>

AlphabetChars == {BITCOIN_ALPHABET[i] : i \in 1 .. Len(BITCOIN_ALPHABET)}

\* The decode map of the package: character -> its index in the alphabet.
b58decode_map ==
    [c \in AlphabetChars |->
        (CHOOSE i \in 1 .. Len(BITCOIN_ALPHABET) : BITCOIN_ALPHABET[i] = c) - 1]

\* Digits lo..hi of n * m + c for a Python int n, with the carry out of digit
\* hi.  The digits are produced in order, the carry running from lo to hi; the
\* range is halved only to keep the evaluation shallow.
RECURSIVE MulAddRange(_, _, _, _, _)
MulAddRange(n, lo, hi, m, c) ==
    IF lo > hi THEN [digits |-> <<>>, carry |-> c]
    ELSE IF lo = hi
    THEN The({ [digits |-> <<t % 256>>, carry |-> t \div 256] : t \in {n[lo] * m + c} })
    ELSE The(UNION { UNION {
            { [digits |-> left.digits \o right.digits, carry |-> right.carry] :
                right \in {MulAddRange(n, mid + 1, hi, m, left.carry)} } :
            left \in {MulAddRange(n, lo, mid, m, c)} } :
            mid \in {(lo + hi) \div 2} })

\* decimal * base + digit, for base and digit below 256
MulAdd(n, m, a) ==
    The({ IF r.carry = 0 THEN r.digits ELSE r.digits \o <<r.carry>> :
          r \in {MulAddRange(n, 1, Len(n), m, a)} })

\* for char in v[lo..hi]: decimal = decimal * base + map[char]
\* (a left-to-right pass over the characters; the range is halved only to
\* keep the evaluation shallow)
RECURSIVE b58accumulate(_, _, _, _)
b58accumulate(v, lo, hi, decimal) ==
    IF lo > hi THEN decimal
    ELSE IF lo = hi
    THEN MulAdd(decimal, Len(BITCOIN_ALPHABET), b58decode_map[v[lo]])
    ELSE The(UNION {
            { b58accumulate(v, mid + 1, hi, left) :
                left \in {b58accumulate(v, lo, mid, decimal)} } :
            mid \in {(lo + hi) \div 2} })

\* Mutant of to_bytes: the minimal encoding, the leading zero bytes lost.
to_bytes_minimal(acc, length) == [i \in 1 .. Len(acc) |-> acc[Len(acc) - i + 1]]

\* acc.to_bytes(length, 'big'), for length >= (acc.bit_length() + 7) // 8
to_bytes(acc, length) ==
    [i \in 1 .. length |->
        IF i <= length - Len(acc) THEN 0 ELSE acc[length - i + 1]]

\* The decoding of the stripped text, body being it without its leading '1's.
b58decode_stripped(stripped, body) ==
    IF ~IsAscii(stripped)
    THEN [ok |-> FALSE, error |-> "UnicodeEncodeError", bytes |-> <<>>]
    ELSE IF \E i \in 1 .. Len(body) : body[i] \notin AlphabetChars
    THEN [ok |-> FALSE, error |-> "ValueError", bytes |-> <<>>]
    ELSE The({ [ok |-> TRUE, error |-> "",
                bytes |-> to_bytes(acc, Len(stripped) - Len(body) + Len(acc))] :
               acc \in {b58accumulate(body, 1, Len(body), <<>>)} })

\* base58.b58decode(v) for a str v: the bytes, or the ValueError it raises
\* (UnicodeEncodeError is a subclass of ValueError).
b58decode(v) ==
    The(UNION { { b58decode_stripped(stripped, body) :
                    body \in {lstrip(stripped, BITCOIN_ALPHABET[1])} } :
                stripped \in {rstrip(v)} })

\* Mutant of str: three digits, zero padded, as "%03d" % n writes.
str_padded(n) == <<48 + (n \div 100), 48 + ((n \div 10) % 10), 48 + (n % 10)>>

\* str(n) for an int n >= 0: the decimal numeral.
RECURSIVE str(_)
str(n) == IF n < 10 THEN <<48 + n>> ELSE str(n \div 10) \o <<48 + (n % 10)>>

\* ",".join(parts[lo..hi])
RECURSIVE JoinRange(_, _, _)
JoinRange(parts, lo, hi) ==
    IF lo > hi THEN <<>>
    ELSE IF lo = hi THEN parts[lo]
    ELSE The({ JoinRange(parts, lo, mid) \o <<44>> \o JoinRange(parts, mid + 1, hi) :
               mid \in {(lo + hi) \div 2} })

\* ",".join(parts)
join(parts) == The({ JoinRange(p, 1, Len(p)) : p \in {parts} })

\* map(str, decimal_values), as the list join consumes
map_str(values) == [i \in 1 .. Len(values) |-> str(values[i])]

\* Line 29: the example key,
\* "aQ7qD4UArVn6yuHHmhuWLnW96uu3jMhWyKYKd8qqrnxD4yCWxPSDG8qnQ51WuQv5KCHDh3WkuhTeiZdMFyrjjUm"
ExampleKey ==
    <<97, 81, 55, 113, 68, 52, 85, 65, 114, 86, 110, 54, 121, 117, 72, 72,
      109, 104, 117, 87, 76, 110, 87, 57, 54, 117, 117, 51, 106, 77, 104,
      87, 121, 75, 89, 75, 100, 56, 113, 113, 114, 110, 120, 68, 52, 121,
      67, 87, 120, 80, 83, 68, 71, 56, 113, 110, 81, 53, 49, 87, 117, 81,
      118, 53, 75, 67, 72, 68, 104, 51, 87, 107, 117, 104, 84, 101, 105, 90,
      100, 77, 70, 121, 114, 106, 106, 85, 109>>

\* Line 14: the message of the ValueError raised when decoding fails,
\* "Invalid Base58 private key format."
FormatMessage ==
    <<73, 110, 118, 97, 108, 105, 100, 32, 66, 97, 115, 101, 53, 56, 32,
      112, 114, 105, 118, 97, 116, 101, 32, 107, 101, 121, 32, 102, 111,
      114, 109, 97, 116, 46>>

\* Line 18: the f-string
\* f"Decoded private key length is invalid: {n} bytes. Expected 32 or 64."
LengthMessage(n) ==
    <<68, 101, 99, 111, 100, 101, 100, 32, 112, 114, 105, 118, 97, 116, 101,
      32, 107, 101, 121, 32, 108, 101, 110, 103, 116, 104, 32, 105, 115, 32,
      105, 110, 118, 97, 108, 105, 100, 58, 32>>
    \o str(n) \o
    <<32, 98, 121, 116, 101, 115, 46, 32, 69, 120, 112, 101, 99, 116, 101,
      100, 32, 51, 50, 32, 111, 114, 32, 54, 52, 46>>

\* Line 17: the lengths accepted, (32, 64)
ValidLengths == {32, 64}

ValueError(message) == [type |-> "ValueError", message |-> message]

NoException == [type |-> "", message |-> <<>>]

(* --------------------- the standard Base58 encoder --------------------- *)
(* base58.b58encode, used to produce the encoded text of a given key.      *)

\* Digits lo..hi of n // d for a Python int n, dividing from the most
\* significant digit hi down to lo, r the remainder carried in.
RECURSIVE DivModRange(_, _, _, _, _)
DivModRange(n, lo, hi, d, r) ==
    IF lo > hi THEN [digits |-> <<>>, rem |-> r]
    ELSE IF lo = hi
    THEN The({ [digits |-> <<cur \div d>>, rem |-> cur % d] :
               cur \in {r * 256 + n[lo]} })
    ELSE The(UNION { UNION {
            { [digits |-> low.digits \o high.digits, rem |-> low.rem] :
                low \in {DivModRange(n, lo, mid, d, high.rem)} } :
            high \in {DivModRange(n, mid + 1, hi, d, r)} } :
            mid \in {(lo + hi) \div 2} })

\* A Python int has no high zero digit.
Normalize(digits) ==
    LET set == {i \in 1 .. Len(digits) : digits[i] # 0}
    IN  IF set = {} THEN <<>> ELSE SubSeq(digits, 1, MaxOf(set))

\* divmod(n, d)
DivMod(n, d) ==
    The({ [quot |-> Normalize(r.digits), rem |-> r.rem] :
          r \in {DivModRange(n, 1, Len(n), d, 0)} })

\* One turn of "while acc: acc, idx = divmod(acc, base);
\* string = alphabet[idx] + string"; nothing once acc is 0.
b58encode_step(st) ==
    IF st.acc = <<>> THEN st
    ELSE The({ [acc |-> qr.quot, string |-> <<BITCOIN_ALPHABET[qr.rem + 1]>> \o st.string] :
               qr \in {DivMod(st.acc, Len(BITCOIN_ALPHABET))} })

\* k turns of the loop, one after the other (k is halved only to keep the
\* evaluation shallow).
RECURSIVE b58encode_turns(_, _)
b58encode_turns(st, k) ==
    IF k <= 0 THEN st
    ELSE IF k = 1 THEN b58encode_step(st)
    ELSE The(UNION {
            { b58encode_turns(first, k - half) :
                first \in {b58encode_turns(st, half)} } :
            half \in {k \div 2} })

\* The loop run to its end: acc shrinks by a factor 58 each turn, so two
\* turns for each of its bytes are more than enough.
b58encode_int(acc, string) ==
    b58encode_turns([acc |-> acc, string |-> string], 2 * Len(acc)).string

\* int.from_bytes(v, 'big')
from_bytes(v) == Normalize([i \in 1 .. Len(v) |-> v[Len(v) - i + 1]])

\* base58.b58encode(v) for bytes v
b58encode(v) ==
    LET body == lstrip(v, 0)
    IN  Repeat(BITCOIN_ALPHABET[1], Len(v) - Len(body))
            \o b58encode_int(from_bytes(body), <<>>)

(* ------------------------------- inputs -------------------------------- *)

\* Byte patterns of a given length: 0,1,2,..., then 1,0,0,..., then 255,255,...
Counting(n) == [i \in 1 .. n |-> (i - 1) % 256]

OneThenZeros(n) == [i \in 1 .. n |-> IF i = 1 THEN 1 ELSE 0]

AllOnes(n) == Repeat(255, n)

Patterns(n) == {Counting(n), OneThenZeros(n), AllOnes(n)}

\* Lengths of the generated keys: the two valid ones and their neighbours.
PlainLengths == ValidLengths \cup {0, 1, 31, 33, 63, 65}

\* Keys in the clear: z leading zero bytes, then a pattern.
PlainKeys ==
    UNION { { Repeat(0, z) \o p : p \in Patterns(n - z) } :
            n \in PlainLengths, z \in 0 .. MaxLeadingZeros }

\* Their Base58 texts.
EncodedKey == [b \in {k \in PlainKeys : TRUE} |-> b58encode(b)]

\* Characters outside the alphabet: '0' 'O' 'I' 'l', '-', space, newline,
\* e-acute, no-break space.
ForeignChars == {48, 79, 73, 108, 45, 32, 10, 233, 160}

InsertAt(v, i, c) == SubSeq(v, 1, i) \o <<c>> \o SubSeq(v, i + 1, Len(v))

\* A text with one foreign character put at its start, middle or end.
Spoiled(v) ==
    {InsertAt(v, i, c) : i \in {0, Len(v) \div 2, Len(v)}, c \in ForeignChars}

\* The texts the example key of line 29 is replaced with.
Inputs ==
    {ExampleKey} \cup {EncodedKey[b] : b \in PlainKeys}
        \cup Spoiled(ExampleKey) \cup Spoiled(EncodedKey[Counting(32)])
        \cup {<<32>>, <<10, 32>>, <<48>>}

\* The texts an importing caller passes: the module's own key again, a text
\* with a foreign character, a key of a wrong length, a key with a newline.
CallerKeys(own) ==
    {own, InsertAt(ExampleKey, 3, 48), EncodedKey[Counting(31)],
     EncodedKey[Counting(32)] \o <<10>>}

(* -------------------------------- state -------------------------------- *)

VARIABLES
    private_key_base58,       \* global, line 29
    private_key_decimal_list, \* global, line 30
    stdout,                   \* what print has written, one element per call
    mpc,                      \* where the module's top level is
    caller,                   \* who called the function: "module", "import"
    pc,                       \* where the running call is
    private_key,              \* parameter
    private_key_bytes,        \* local, line 12
    decimal_values,           \* local, line 21
    formatted_key,            \* local, line 24
    exc,                      \* the exception the call raised
    log,                      \* the finished calls: key and outcome, in order
    ncalls                    \* calls made by the importing caller

globals == <<private_key_base58, private_key_decimal_list, stdout>>

locals == <<private_key, private_key_bytes, decimal_values, formatted_key>>

vars == <<private_key_base58, private_key_decimal_list, stdout, mpc, caller, pc,
          private_key, private_key_bytes, decimal_values, formatted_key, exc,
          log, ncalls>>

\* Lines 27-29: the module is loaded up to the assignment of the key.
Init ==
    /\ private_key_base58 \in Inputs
    /\ private_key_decimal_list = Unbound
    /\ stdout = <<>>
    /\ mpc = "line30"
    /\ caller = "none"
    /\ pc = "idle"
    /\ private_key = Unbound
    /\ private_key_bytes = Unbound
    /\ decimal_values = Unbound
    /\ formatted_key = Unbound
    /\ exc = NoException
    /\ log = <<>>
    /\ ncalls = 0

\* A call enters the function with its argument bound.
Enter(who, key) ==
    /\ pc = "idle"
    /\ caller' = who
    /\ pc' = "decode"
    /\ private_key' = key
    /\ private_key_bytes' = Unbound
    /\ decimal_values' = Unbound
    /\ formatted_key' = Unbound
    /\ exc' = NoException

\* The outcome of the finished call, as its caller sees it.
Outcome ==
    IF pc = "returned"
    THEN [kind |-> "returned", value |-> formatted_key]
    ELSE [kind |-> "raised", value |-> exc.message]

\* The frame of a finished call is dropped.
Leave ==
    /\ pc \in {"returned", "raised"}
    /\ pc' = "idle"
    /\ caller' = "none"
    /\ private_key' = Unbound
    /\ private_key_bytes' = Unbound
    /\ decimal_values' = Unbound
    /\ formatted_key' = Unbound
    /\ exc' = NoException
    /\ log' = Append(log, [key |-> private_key, outcome |-> Outcome])

\* Line 30, the call.
ModuleCall ==
    /\ mpc = "line30"
    /\ Enter("module", private_key_base58)
    /\ mpc' = "in_call"
    /\ UNCHANGED <<globals, log, ncalls>>

\* Mutant of Decode: the except clause names another exception, so the
\* decoder's own ValueError leaves the function.
Decode_Uncaught ==
    /\ pc = "decode"
    /\ \E r \in {b58decode(private_key)} :
           IF r.ok
           THEN /\ private_key_bytes' = r.bytes
                /\ pc' = "validate"
                /\ exc' = exc
           ELSE /\ private_key_bytes' = private_key_bytes
                /\ pc' = "raised"
                /\ exc' = [type |-> r.error, message |-> <<73, 110, 118, 97, 108, 105, 100>>]
    /\ UNCHANGED <<globals, mpc, caller, private_key, decimal_values,
                   formatted_key, log, ncalls>>

\* Mutant of Decode: an empty argument is rejected as malformed.
Decode_RejectEmpty ==
    /\ pc = "decode"
    /\ \E r \in {b58decode(private_key)} :
           IF r.ok /\ private_key # <<>>
           THEN /\ private_key_bytes' = r.bytes
                /\ pc' = "validate"
                /\ exc' = exc
           ELSE /\ private_key_bytes' = private_key_bytes
                /\ pc' = "raised"
                /\ exc' = ValueError(FormatMessage)
    /\ UNCHANGED <<globals, mpc, caller, private_key, decimal_values,
                   formatted_key, log, ncalls>>

\* Mutant of Decode: the text decoded is the one of the call before (a
\* value kept in a global between calls).
Decode_Stale ==
    /\ pc = "decode"
    /\ \E r \in {b58decode(IF log = <<>> THEN private_key ELSE log[Len(log)].key)} :
           IF r.ok
           THEN /\ private_key_bytes' = r.bytes
                /\ pc' = "validate"
                /\ exc' = exc
           ELSE /\ private_key_bytes' = private_key_bytes
                /\ pc' = "raised"
                /\ exc' = ValueError(FormatMessage)
    /\ UNCHANGED <<globals, mpc, caller, private_key, decimal_values,
                   formatted_key, log, ncalls>>

\* Mutant of Decode: the except clause swallows the error (pass) and the
\* function goes on with no bytes.
Decode_Swallow ==
    /\ pc = "decode"
    /\ \E r \in {b58decode(private_key)} :
           /\ private_key_bytes' = r.bytes
           /\ pc' = "validate"
           /\ exc' = exc
    /\ UNCHANGED <<globals, mpc, caller, private_key, decimal_values,
                   formatted_key, log, ncalls>>

\* Lines 11-14: decode, and turn a ValueError of the decoder into the
\* function's own.
Decode ==
    /\ pc = "decode"
    /\ \E r \in {b58decode(private_key)} :
           IF r.ok
           THEN /\ private_key_bytes' = r.bytes
                /\ pc' = "validate"
                /\ exc' = exc
           ELSE /\ private_key_bytes' = private_key_bytes
                /\ pc' = "raised"
                /\ exc' = ValueError(FormatMessage)
    /\ UNCHANGED <<globals, mpc, caller, private_key, decimal_values,
                   formatted_key, log, ncalls>>

\* Mutant of CheckLength: only keys shorter than 32 bytes are refused.
CheckLength_AtLeast32 ==
    /\ pc = "validate"
    /\ IF Len(private_key_bytes) < 32
       THEN /\ pc' = "raised"
            /\ exc' = ValueError(LengthMessage(Len(private_key_bytes)))
       ELSE /\ pc' = "convert"
            /\ exc' = exc
    /\ UNCHANGED <<globals, mpc, caller, locals, log, ncalls>>

\* Mutant of CheckLength: the wrong length is reported with the message of
\* the decoding failure.
CheckLength_FormatMessage ==
    /\ pc = "validate"
    /\ IF Len(private_key_bytes) \notin ValidLengths
       THEN /\ pc' = "raised"
            /\ exc' = ValueError(FormatMessage)
       ELSE /\ pc' = "convert"
            /\ exc' = exc
    /\ UNCHANGED <<globals, mpc, caller, locals, log, ncalls>>

\* Lines 17-18: the length check.
CheckLength ==
    /\ pc = "validate"
    /\ IF Len(private_key_bytes) \notin ValidLengths
       THEN /\ pc' = "raised"
            /\ exc' = ValueError(LengthMessage(Len(private_key_bytes)))
       ELSE /\ pc' = "convert"
            /\ exc' = exc
    /\ UNCHANGED <<globals, mpc, caller, locals, log, ncalls>>

\* Mutant of Convert: the list is built back to front.
Convert_Reversed ==
    /\ pc = "convert"
    /\ decimal_values' = [i \in 1 .. Len(private_key_bytes) |->
                            private_key_bytes[Len(private_key_bytes) - i + 1]]
    /\ pc' = "join"
    /\ UNCHANGED <<globals, mpc, caller, private_key, private_key_bytes,
                   formatted_key, exc, log, ncalls>>

\* Line 21: the list of the byte values.
Convert ==
    /\ pc = "convert"
    /\ decimal_values' = [i \in 1 .. Len(private_key_bytes) |-> private_key_bytes[i]]
    /\ pc' = "join"
    /\ UNCHANGED <<globals, mpc, caller, private_key, private_key_bytes,
                   formatted_key, exc, log, ncalls>>

\* Mutant of JoinReturn: the function prints the string before returning it.
JoinReturn_Prints ==
    /\ pc = "join"
    /\ formatted_key' = join(map_str(decimal_values))
    /\ stdout' = Append(stdout, formatted_key' \o <<10>>)
    /\ pc' = "returned"
    /\ UNCHANGED <<private_key_base58, private_key_decimal_list, mpc, caller,
                   private_key, private_key_bytes, decimal_values, exc, log, ncalls>>

\* Lines 24-25: join the numerals and return.
JoinReturn ==
    /\ pc = "join"
    /\ formatted_key' = join(map_str(decimal_values))
    /\ pc' = "returned"
    /\ UNCHANGED <<globals, mpc, caller, private_key, private_key_bytes,
                   decimal_values, exc, log, ncalls>>

\* Line 30, the assignment of the value returned.
ModuleAssign ==
    /\ caller = "module"
    /\ pc = "returned"
    /\ private_key_decimal_list' = formatted_key
    /\ mpc' = "line31"
    /\ Leave
    /\ UNCHANGED <<private_key_base58, stdout, ncalls>>

\* Line 30, the call raised: nothing catches it and the module stops.
ModuleAbort ==
    /\ caller = "module"
    /\ pc = "raised"
    /\ mpc' = "aborted"
    /\ Leave
    /\ UNCHANGED <<globals, ncalls>>

\* Line 31: print writes the value and a newline.
PrintResult ==
    /\ mpc = "line31"
    /\ stdout' = Append(stdout, private_key_decimal_list \o <<10>>)
    /\ mpc' = "loaded"
    /\ UNCHANGED <<private_key_base58, private_key_decimal_list, caller, pc,
                   locals, exc, log, ncalls>>

\* A caller that imported the module calls the function.
ImportCall ==
    /\ mpc = "loaded"
    /\ ncalls < MaxCalls
    /\ \E key \in CallerKeys(private_key_base58) : Enter("import", key)
    /\ ncalls' = ncalls + 1
    /\ UNCHANGED <<globals, mpc, log>>

\* The importing caller gets the value or the exception.
ImportReturn ==
    /\ caller = "import"
    /\ Leave
    /\ UNCHANGED <<globals, mpc, ncalls>>

Next ==
    \/ ModuleCall
    \/ Decode
    \/ CheckLength
    \/ Convert
    \/ JoinReturn
    \/ ModuleAssign
    \/ ModuleAbort
    \/ PrintResult
    \/ ImportCall
    \/ ImportReturn

Spec == Init /\ [][Next]_vars

TypeOK ==
    /\ mpc \in {"line30", "in_call", "line31", "loaded", "aborted"}
    /\ caller \in {"none", "module", "import"}
    /\ pc \in {"idle", "decode", "validate", "convert", "join", "returned", "raised"}
    /\ ncalls \in 0 .. MaxCalls
    /\ Len(stdout) <= 1

(* ---------------------- reading a result back ------------------------- *)

Digits == 48 .. 57

\* The fields of s[lo..hi] between the separators, as str.split gives them.
RECURSIVE SplitRange(_, _, _, _)
SplitRange(s, lo, hi, sep) ==
    IF lo > hi THEN << <<>> >>
    ELSE IF lo = hi
    THEN IF s[lo] = sep THEN << <<>>, <<>> >> ELSE << <<s[lo]>> >>
    ELSE LET mid == (lo + hi) \div 2
             L   == SplitRange(s, lo, mid, sep)
             R   == SplitRange(s, mid + 1, hi, sep)
         IN  SubSeq(L, 1, Len(L) - 1) \o << L[Len(L)] \o R[1] >>
                 \o SubSeq(R, 2, Len(R))

\* s.split(",")
SplitOnComma(s) == SplitRange(s, 1, Len(s), 44)

IsNumeral(f) == f # <<>> /\ \A i \in 1 .. Len(f) : f[i] \in Digits

\* int(f) for a numeral f
RECURSIVE ParseNat(_)
ParseNat(f) ==
    IF f = <<>> THEN 0
    ELSE ParseNat(SubSeq(f, 1, Len(f) - 1)) * 10 + (f[Len(f)] - 48)

\* [int(f) for f in s.split(",")], or Unbound when a field is no numeral
ParsedFields(s) ==
    LET fields == SplitOnComma(s)
    IN  IF \A k \in 1 .. Len(fields) : IsNumeral(fields[k])
        THEN [k \in 1 .. Len(fields) |-> ParseNat(fields[k])]
        ELSE Unbound

\* The numbers written in a message, in order.
Numbers(s) ==
    LET marked == [i \in 1 .. Len(s) |-> IF s[i] \in Digits THEN s[i] ELSE 44]
        runs   == SelectSeq(SplitOnComma(marked), IsNumeral)
    IN  [k \in 1 .. Len(runs) |-> ParseNat(runs[k])]

\* How many times c stands at the front of v.
LeadingCount(v, c) == Len(v) - Len(lstrip(v, c))

Finished == pc \in {"returned", "raised"}

FormatError == pc = "raised" /\ exc = ValueError(FormatMessage)

LengthError(n) ==
    /\ pc = "raised"
    /\ exc.type = "ValueError"
    /\ exc.message # FormatMessage
    /\ Numbers(exc.message) = <<n, 32, 64>>

HasForeignChar(v) == \E i \in 1 .. Len(v) : v[i] \notin AlphabetChars

(* ------------------------------- claims -------------------------------- *)

\* C1: when decoding succeeded, the call returns a formatted string if and
\* only if the decoded length is 32 or 64; for any other decoded length it
\* returns nothing and raises the length error, whose message carries the
\* observed length and the accepted lengths 32 and 64.
C1_LengthDecides ==
    (Finished /\ b58decode(private_key).ok) =>
        LET decoded == b58decode(private_key).bytes
        IN  IF Len(decoded) \in {32, 64}
            THEN pc = "returned" /\ formatted_key # Unbound /\ exc = NoException
            ELSE formatted_key = Unbound /\ LengthError(Len(decoded))

C1_Witness ==
    /\ pc = "raised"
    /\ b58decode(private_key).ok
    /\ Len(private_key_bytes) = 33
    /\ Numbers(exc.message) = <<33, 32, 64>>

\* C2, as stated: an input with a character outside the alphabet at any
\* position fails with the format error and produces no output.
C2_AnyForeignCharFails ==
    (Finished /\ HasForeignChar(private_key)) =>
        FormatError /\ formatted_key = Unbound

\* C2, amended: an input that still has a character outside the alphabet
\* once its trailing whitespace is removed fails with the format error and
\* produces no output, partial or complete.
C2_ForeignCharFails ==
    (Finished /\ HasForeignChar(rstrip(private_key))) =>
        /\ FormatError
        /\ private_key_bytes = Unbound
        /\ decimal_values = Unbound
        /\ formatted_key = Unbound

C2_Witness ==
    /\ FormatError
    /\ private_key = InsertAt(ExampleKey, Len(ExampleKey) \div 2, 108)
    /\ formatted_key = Unbound

\* C3: on success the returned string split on ',' has exactly len(b) fields
\* (32 or 64), each a numeral of an integer in 0..255, and the integers in
\* order are the decoded bytes b.
C3_FieldsAreTheBytes ==
    pc = "returned" =>
        LET b      == b58decode(private_key).bytes
            fields == SplitOnComma(formatted_key)
        IN  /\ Len(fields) = Len(b)
            /\ Len(b) \in {32, 64}
            /\ \A k \in 1 .. Len(fields) :
                    IsNumeral(fields[k]) /\ ParseNat(fields[k]) \in 0 .. 255
            /\ ParsedFields(formatted_key) = b

C3_Witness ==
    /\ pc = "returned"
    /\ private_key = ExampleKey
    /\ Len(SplitOnComma(formatted_key)) = 64
    /\ ParsedFields(formatted_key)[2] = 205

\* "0,1,2,...,31"
CountingText ==
    <<48, 44, 49, 44, 50, 44, 51, 44, 52, 44, 53, 44, 54, 44, 55, 44, 56,
      44, 57, 44, 49, 48, 44, 49, 49, 44, 49, 50, 44, 49, 51, 44, 49, 52,
      44, 49, 53, 44, 49, 54, 44, 49, 55, 44, 49, 56, 44, 49, 57, 44, 50,
      48, 44, 50, 49, 44, 50, 50, 44, 50, 51, 44, 50, 52, 44, 50, 53, 44,
      50, 54, 44, 50, 55, 44, 50, 56, 44, 50, 57, 44, 51, 48, 44, 51, 49>>

\* C4: for a key b of 32 or 64 bytes, leading zero bytes included, decoding
\* the Base58 text of b gives b back, one zero byte for each leading '1', and
\* the call on that text returns the decimal list of b.
C4_RoundTrip ==
    \A b \in PlainKeys :
        (Len(b) \in {32, 64} /\ private_key = EncodedKey[b]) =>
            /\ pc \in {"validate", "convert", "join", "returned"} =>
                    /\ private_key_bytes = b
                    /\ LeadingCount(private_key, 49) = LeadingCount(private_key_bytes, 0)
            /\ Finished => pc = "returned" /\ ParsedFields(formatted_key) = b
            /\ (Finished /\ b = Counting(32)) => formatted_key = CountingText

C4_Witness ==
    /\ pc = "returned"
    /\ private_key = EncodedKey[Repeat(0, 2) \o AllOnes(30)]
    /\ LeadingCount(private_key, 49) = 2
    /\ SubSeq(private_key_bytes, 1, 3) = <<0, 0, 255>>

\* C5: a returned string holds only digits and commas: every field is a
\* numeral without sign or leading zero (byte 0 is "0"), fields are separated
\* by exactly one comma, and there is no leading or trailing comma, no empty
\* field and no whitespace.
C5_OutputShape ==
    pc = "returned" =>
        LET fields == SplitOnComma(formatted_key)
        IN  /\ \A i \in 1 .. Len(formatted_key) :
                    formatted_key[i] \in Digits \cup {44}
            /\ \A k \in 1 .. Len(fields) :
                    /\ fields[k] # <<>>
                    /\ Len(fields[k]) > 1 => fields[k][1] # 48
            /\ \A k \in 1 .. Len(private_key_bytes) :
                    private_key_bytes[k] = 0 => fields[k] = <<48>>
            /\ formatted_key[1] # 44
            /\ formatted_key[Len(formatted_key)] # 44

C5_Witness ==
    /\ pc = "returned"
    /\ private_key_bytes = OneThenZeros(64)
    /\ Len(formatted_key) = 127

\* C6: the empty string does not fail with the format error: it decodes to
\* no bytes and the call fails with the length error reporting length 0.
C6_EmptyString ==
    (private_key = <<>> /\ Finished) =>
        /\ ~FormatError
        /\ private_key_bytes = <<>>
        /\ LengthError(0)

C6_Witness == private_key = <<>> /\ pc = "raised" /\ Numbers(exc.message)[1] = 0

\* C7: two calls with the same input, in any order and with other calls in
\* between, end in the same outcome: the same string, or the same error with
\* the same reported length.
C7_Deterministic ==
    \A i, j \in 1 .. Len(log) :
        log[i].key = log[j].key => log[i].outcome = log[j].outcome

C7_Witness ==
    /\ Len(log) = 3
    /\ log[1].key = log[3].key
    /\ log[2].key # log[1].key
    /\ log[2].outcome.kind = "raised"

C9_NoSideEffect ==
    /\ [][(pc # "idle" \/ pc' # "idle") =>
            /\ private_key_base58' = private_key_base58
            /\ stdout' = stdout
            /\ (private_key_decimal_list' # private_key_decimal_list =>
                    pc = "returned" /\ pc' = "idle" /\ caller = "module")]_vars
    /\ [][stdout' # stdout =>
            /\ stdout = <<>>
            /\ mpc = "line31"
            /\ Len(log) = 1
            /\ log[1] = [key |-> private_key_base58,
                         outcome |-> [kind |-> "returned",
                                      value |-> private_key_decimal_list]]
            /\ stdout' = <<private_key_decimal_list \o <<10>> >>]_vars
    /\ [](mpc = "aborted" => stdout = <<>>)
    /\ [](Len(stdout) <= 1)

C9_Witness ==
    /\ Len(stdout) = 1
    /\ Len(log) = 2
    /\ log[2].outcome.kind = "raised"
    /\ pc = "returned"
    /\ caller = "import"

\* The order of the steps of a call.
StepOrder ==
    {<<"idle", "decode">>, <<"decode", "validate">>, <<"decode", "raised">>,
     <<"validate", "convert">>, <<"validate", "raised">>, <<"convert", "join">>,
     <<"join", "returned">>, <<"returned", "idle">>, <<"raised", "idle">>}

\* C10: a call runs decode, length check, format in that order and ends in
\* exactly one of success and failure: a failed decode ends it before the
\* length check, a failed length check before any formatting, and formatting
\* is reached only after both succeeded.  (No step goes back and a call that
\* has not ended can always take its next step, so every call ends.)
C10_Pipeline ==
    /\ [][pc' # pc => <<pc, pc'>> \in StepOrder]_vars
    /\ [][(pc = "decode" /\ pc' # pc) =>
            pc' = IF b58decode(private_key).ok THEN "validate" ELSE "raised"]_vars
    /\ [][(pc = "validate" /\ pc' # pc) =>
            pc' = IF Len(private_key_bytes) \in {32, 64} THEN "convert" ELSE "raised"]_vars
    /\ [](pc = "raised" => decimal_values = Unbound /\ formatted_key = Unbound)
    /\ [](pc \in {"convert", "join", "returned"} =>
            b58decode(private_key).ok /\ Len(private_key_bytes) \in {32, 64})
    /\ [](pc \in {"decode", "validate", "convert", "join"} =>
            ENABLED (Decode \/ CheckLength \/ Convert \/ JoinReturn))

C10_Witness ==
    /\ pc = "raised"
    /\ private_key_bytes # Unbound
    /\ caller = "import"
    /\ Len(log) = 2
====
